---------------------------- MODULE Spec2Model ----------------------------
(***************************************************************************)
(* A model of mcconfig.py: the channel scan that drives recpt1 | epgdump   *)
(* over the channel indices of each selected band through a                *)
(* multiprocessing pool, parses the EPG XML into channel records, and      *)
(* merges the records of each band (remove_duplicate_service).             *)
(*                                                                         *)
(* Text that the program takes apart (channel strings, service_id texts)  *)
(* is a sequence of one-character strings, so that formatting, splitting  *)
(* and int() are computed the way the program computes them.  Python's    *)
(* None is the value None below, which is no such text.                    *)
(***************************************************************************)
EXTENDS Integers, Sequences, FiniteSets, TLC

\* ------------------------------------------------------------------ bounds
\* Longest list of records handed to remove_duplicate_service on its own.
MaxRecords == 3
\* Channel indices scanned per band when one band is selected.
MaxChannels == 5
\* Channel indices scanned per band when several bands are selected.
MaxChannelsMulti == 2
\* Largest --tuners value.
MaxTuners == 2

\* ------------------------------------------------------- program constants
\* chunksize passed to pool.imap_unordered
ChunkSize == 4

\* Python's None: not a sequence of characters
None == <<"None">>

\* ----------------------------------------------------------------- strings
Digits == {"0", "1", "2", "3", "4", "5", "6", "7", "8", "9"}

\* ord(c) for the characters that occur
Ord(c) ==
    CASE c = "0" -> 48 [] c = "1" -> 49 [] c = "2" -> 50 [] c = "3" -> 51
      [] c = "4" -> 52 [] c = "5" -> 53 [] c = "6" -> 54 [] c = "7" -> 55
      [] c = "8" -> 56 [] c = "9" -> 57 [] c = "B" -> 66 [] c = "C" -> 67
      [] c = "S" -> 83 [] c = "_" -> 95 [] c = "x" -> 120

DigitValue(c) == Ord(c) - 48

DigitChar(d) == CHOOSE c \in Digits : DigitValue(c) = d

\* str.isdigit(): non-empty and every character a digit
isdigit(text) == Len(text) > 0 /\ \A i \in 1..Len(text) : text[i] \in Digits

RECURSIVE DigitsToInt(_)
\* the place value of a run of digits
DigitsToInt(text) ==
    IF Len(text) = 0 THEN 0
    ELSE 10 * DigitsToInt(SubSeq(text, 1, Len(text) - 1)) + DigitValue(text[Len(text)])

RECURSIVE FormatInt(_)
\* "%d" % n, for n >= 0
FormatInt(n) ==
    IF n < 10 THEN <<DigitChar(n)>>
    ELSE FormatInt(n \div 10) \o <<DigitChar(n % 10)>>

RECURSIVE StrLess(_, _)
\* Python's < on two strings: by code point, a proper prefix first
StrLess(a, b) ==
    IF Len(b) = 0 THEN FALSE
    ELSE IF Len(a) = 0 THEN TRUE
    ELSE IF a[1] # b[1] THEN Ord(a[1]) < Ord(b[1])
    ELSE StrLess(Tail(a), Tail(b))

\* ------------------------------------------------------ natsort_for_channel
\* the lexical key a sort on the bare string would use
atoi_lexical(text) == <<"str", text>>

\* atoi: int(text) if text.isdigit() else text
atoi(text) == IF isdigit(text) THEN <<"int", DigitsToInt(text)>> ELSE <<"str", text>>

\* the length of the run of digits (or of non-digits) text starts with
RECURSIVE RunLength(_, _)
RunLength(text, digit) ==
    IF Len(text) = 0 \/ ((text[1] \in Digits) # digit) THEN 0
    ELSE 1 + RunLength(Tail(text), digit)

RECURSIVE re_split(_)
\* re.split(r'(\d+)', text): the text between the digit runs and the runs
\* themselves, alternately, from and to a (possibly empty) piece of text
re_split(text) ==
    LET n == RunLength(text, FALSE)
        rest == SubSeq(text, n + 1, Len(text))
        d == RunLength(rest, TRUE)
    IN  IF n = Len(text) THEN <<text>>
        ELSE <<SubSeq(text, 1, n), SubSeq(rest, 1, d)>>
                \o re_split(SubSeq(rest, d + 1, Len(rest)))

\* natural_keys: [atoi(c) for c in re.split(r'(\d+)', text)]
natural_keys(text) ==
    LET parts == re_split(text) IN [i \in 1..Len(parts) |-> atoi(parts[i])]

natsort_for_channel(i) == natural_keys(i.channel)

\* the first index at which two keys differ, 0 when one is a prefix of the other
FirstDiff(a, b) ==
    LET m == IF Len(a) < Len(b) THEN Len(a) ELSE Len(b)
        D == {i \in 1..m : a[i][1] # b[i][1] \/ a[i][2] # b[i][2]}
    IN  IF D = {} THEN 0 ELSE CHOOSE i \in D : \A j \in D : i <= j

\* Python orders two lists by their first differing elements; an int and a
\* str there raise TypeError
KeyTypeError(a, b) ==
    LET i == FirstDiff(a, b) IN i # 0 /\ a[i][1] # b[i][1]

\* a < b on two keys that can be compared
KeyLess(a, b) ==
    LET i == FirstDiff(a, b)
    IN  IF i = 0 THEN Len(a) < Len(b)
        ELSE IF a[i][1] = "int" THEN a[i][2] < b[i][2]
        ELSE StrLess(a[i][2], b[i][2])

\* ------------------------------------------------- remove_duplicate_service
\* sorted() is stable: x goes behind every element that is not greater
RECURSIVE InsertByChannel(_, _)
InsertByChannel(s, x) ==
    IF Len(s) = 0 THEN <<x>>
    ELSE IF KeyLess(natsort_for_channel(x), natsort_for_channel(s[1]))
         THEN <<x>> \o s
         ELSE <<s[1]>> \o InsertByChannel(Tail(s), x)

RECURSIVE SortLoopByChannel(_, _)
SortLoopByChannel(done, todo) ==
    IF Len(todo) = 0 THEN done
    ELSE SortLoopByChannel(InsertByChannel(done, todo[1]), Tail(todo))

\* a bug: the records are returned in the order they came in
Unsorted(channels) == channels

\* sorted(channels, key=natsort_for_channel)
SortedByChannel(channels) == SortLoopByChannel(<<>>, channels)

\* sorted() raises TypeError when it compares two keys that cannot be ordered
\* (here: as soon as any two of the keys cannot)
SortRaises(channels) ==
    \E i, j \in 1..Len(channels) :
        KeyTypeError(natsort_for_channel(channels[i]), natsort_for_channel(channels[j]))

key_func(i) == i.serviceId

RECURSIVE InsertByServiceId(_, _)
InsertByServiceId(s, x) ==
    IF Len(s) = 0 THEN <<x>>
    ELSE IF key_func(x) < key_func(s[1])
         THEN <<x>> \o s
         ELSE <<s[1]>> \o InsertByServiceId(Tail(s), x)

RECURSIVE SortLoopByServiceId(_, _)
SortLoopByServiceId(done, todo) ==
    IF Len(todo) = 0 THEN done
    ELSE SortLoopByServiceId(InsertByServiceId(done, todo[1]), Tail(todo))

\* a bug: the records sorted by the channel key before they are grouped
sorted_by_wrong_key(channels) == SortedByChannel(channels)

\* data = sorted(channels, key=key_func)
SortedByServiceId(channels) == SortLoopByServiceId(<<>>, channels)

RECURSIVE groupby(_)
\* itertools.groupby(data, key=key_func): the runs of consecutive records
\* with one key, in order
groupby(data) ==
    IF Len(data) = 0 THEN <<>>
    ELSE LET n == CHOOSE k \in 1..Len(data) :
                    /\ \A i \in 1..k : key_func(data[i]) = key_func(data[1])
                    /\ (k < Len(data) => key_func(data[k + 1]) # key_func(data[1]))
         IN  <<SubSeq(data, 1, n)>> \o groupby(SubSeq(data, n + 1, Len(data)))

\* Python's truth of a display name: neither None nor ""
Truthy(name) == name # None /\ name # <<>>

\* a bug: the first record of the group, named or not
first_ch(gl) == gl[1]

\* find_nonnull_ch: the first record with a name, else the first record
find_nonnull_ch(gl) ==
    LET l == SelectSeq(gl, LAMBDA i : Truthy(i.name))
    IN  IF Len(l) > 0 THEN l[1] ELSE gl[1]

\* the satellite branch of remove_duplicate_service
MergeByServiceId(channels) ==
    LET data == SortedByServiceId(channels)
        groups == groupby(data)
        result == [g \in 1..Len(groups) |-> find_nonnull_ch(groups[g])]
    IN  SortedByChannel(result)

\* a bug: the terrestrial band merged like the others
remove_duplicate_service_no_gr(chtype, channels) == MergeByServiceId(channels)

remove_duplicate_service(chtype, channels) ==
    IF chtype = "GR" THEN SortedByChannel(channels)
    ELSE MergeByServiceId(channels)

\* ------------------------------------------------------------ ChannelType
Bands == {"GR", "BS", "CS"}

\* range(first, stop, step) as a sequence
Range(first, stop, step) ==
    [i \in 1..((stop - first + step - 1) \div step) |-> first + (i - 1) * step]

\* ChannelType.channels
ChannelRange(band) ==
    CASE band = "GR" -> Range(13, 53, 1)
      [] band = "BS" -> Range(1, 25, 2)
      [] band = "CS" -> Range(2, 25, 2)

\* ChannelType.format_recorder
format_recorder(band, ch) ==
    CASE band = "GR" -> FormatInt(ch)
      [] band = "BS" -> <<"B", "S">> \o FormatInt(ch) \o <<"_">> \o FormatInt(0)
      [] band = "CS" -> <<"C", "S">> \o FormatInt(ch)

\* ChannelType.epgdump_mode
epgdump_mode(band, ch) ==
    CASE band = "GR" -> FormatInt(ch)
      [] band = "BS" -> <<"/", "B", "S">>
      [] band = "CS" -> <<"/", "C", "S">>

\* ChannelType.chdef
chdef(band, ch) ==
    [type |-> band, ch_rec |-> format_recorder(band, ch),
     epgdump_mode |-> epgdump_mode(band, ch)]

\* ------------------------------------------------------------- xml_to_epg
\* dict lookups and int() raise; a call either returns a value or raises
Returned(v) == [st |-> "returned", value |-> v]
Raised(e) == [st |-> "raised", value |-> e]

RECURSIVE ChSpecLoop(_, _)
\* for item in channel.iterchildren(): ch_spec[item.tag] = item.text
ChSpecLoop(ch_spec, children) ==
    IF Len(children) = 0 THEN ch_spec
    ELSE LET item == children[1]
             keys == DOMAIN ch_spec \cup {item.tag}
         IN  ChSpecLoop([k \in keys |-> IF k = item.tag THEN item.text ELSE ch_spec[k]],
                        Tail(children))

\* the ch_spec dictionary of a channel element that has a tp attribute
ch_spec_of(channel) ==
    ChSpecLoop([k \in {"tp"} |-> channel.attrib["tp"]], channel.children)

\* int(x) accepts a text of digits (the texts here hold digits and letters)
int_parses(text) == isdigit(text)

\* a bug: a record without serviceId is returned where int() cannot parse
xml_to_epg_lenient(cd, channel) ==
    IF "tp" \notin DOMAIN channel.attrib THEN Raised("KeyError")
    ELSE LET ch_spec == ch_spec_of(channel)
         IN  IF "display-name" \notin DOMAIN ch_spec THEN Raised("KeyError")
             ELSE IF "service_id" \in DOMAIN ch_spec
                     /\ ch_spec["service_id"] # None
                     /\ int_parses(ch_spec["service_id"])
             THEN Returned([type |-> cd.type, name |-> ch_spec["display-name"],
                            channel |-> ch_spec["tp"],
                            serviceId |-> DigitsToInt(ch_spec["service_id"]),
                            isDisabled |-> FALSE])
             ELSE Returned([type |-> cd.type, name |-> ch_spec["display-name"],
                            channel |-> ch_spec["tp"], isDisabled |-> FALSE])

\* a bug: the channel string of the scan task instead of the element's tp
xml_to_epg_ch_rec(cd, channel) ==
    IF "tp" \notin DOMAIN channel.attrib THEN Raised("KeyError")
    ELSE LET ch_spec == ch_spec_of(channel)
         IN  IF "display-name" \notin DOMAIN ch_spec THEN Raised("KeyError")
             ELSE IF "service_id" \notin DOMAIN ch_spec THEN Raised("KeyError")
             ELSE IF ch_spec["service_id"] = None THEN Raised("TypeError")
             ELSE IF ~int_parses(ch_spec["service_id"]) THEN Raised("ValueError")
             ELSE Returned([type |-> cd.type, name |-> ch_spec["display-name"],
                            channel |-> cd.ch_rec,
                            serviceId |-> DigitsToInt(ch_spec["service_id"]),
                            isDisabled |-> FALSE])

\* xml_to_epg: channel.attrib['tp'], ch_spec['display-name'] and
\* ch_spec['service_id'] raise KeyError when missing, int(None) raises
\* TypeError and int() of another text ValueError; the del of serviceId
\* comes after int() and is never reached with a None service_id
xml_to_epg(cd, channel) ==
    IF "tp" \notin DOMAIN channel.attrib THEN Raised("KeyError")
    ELSE LET ch_spec == ch_spec_of(channel)
         IN  IF "display-name" \notin DOMAIN ch_spec THEN Raised("KeyError")
             ELSE IF "service_id" \notin DOMAIN ch_spec THEN Raised("KeyError")
             ELSE IF ch_spec["service_id"] = None THEN Raised("TypeError")
             ELSE IF ~int_parses(ch_spec["service_id"]) THEN Raised("ValueError")
             ELSE Returned([type |-> cd.type, name |-> ch_spec["display-name"],
                            channel |-> ch_spec["tp"],
                            serviceId |-> DigitsToInt(ch_spec["service_id"]),
                            isDisabled |-> FALSE])

\* ---------------------------------------------------- get_epg_from_record
\* What epgdump wrote to its standard output: nothing, bytes that are not
\* XML, or a document with its channel elements.
EmptyOutput == [kind |-> "empty", channels |-> <<>>]
Malformed == [kind |-> "malformed", channels |-> <<>>]
Document(chs) == [kind |-> "xml", channels |-> chs]

Child(tag, text) == [tag |-> tag, text |-> text]
Channel(tp, children) == [attrib |-> [k \in {"tp"} |-> tp], children |-> children]

NHK == <<"N", "H", "K">>
TestCh == <<"T", "e", "s", "t", "C", "h">>
Sid101 == <<"1", "0", "1">>
Sid102 == <<"1", "0", "2">>

\* the outputs explored for a band: tp is the band's first or second channel
DumpOutputs(band) ==
    LET tp1 == format_recorder(band, ChannelRange(band)[1])
        tp2 == format_recorder(band, ChannelRange(band)[2])
    IN  { EmptyOutput, Malformed, Document(<<>>),
          Document(<<Channel(tp1, <<Child("display-name", <<>>), Child("service_id", Sid101)>>),
                     Channel(tp1, <<Child("display-name", TestCh), Child("service_id", Sid101)>>)>>),
          Document(<<Channel(tp2, <<Child("display-name", NHK), Child("service_id", Sid102)>>)>>),
          Document(<<Channel(tp1, <<Child("tp", tp2), Child("display-name", NHK),
                                    Child("service_id", Sid102)>>)>>),
          Document(<<Channel(tp1, <<Child("display-name", NHK)>>)>>),
          Document(<<Channel(tp1, <<Child("display-name", NHK), Child("service_id", None)>>)>>),
          Document(<<Channel(tp1, <<Child("display-name", NHK), Child("service_id", <<"x", "1">>)>>)>>) }

\* with no stream from the tuner the dump has no channel to report
NoChannelOutputs == {EmptyOutput, Malformed, Document(<<>>)}

RECURSIVE EpgLoop(_, _, _)
\* [xml_to_epg(chdef, channel) for channel in root.iter('channel')]
EpgLoop(cd, chs, acc) ==
    IF Len(chs) = 0 THEN Returned(acc)
    ELSE LET r == xml_to_epg(cd, chs[1])
         IN  IF r.st = "raised" THEN r
             ELSE EpgLoop(cd, Tail(chs), Append(acc, r.value))

\* etree.parse raises XMLSyntaxError on an empty or malformed stream
get_epg_from_record(cd, out) ==
    IF out.kind # "xml" THEN Raised("XMLSyntaxError")
    ELSE EpgLoop(cd, out.channels, <<>>)

\* ------------------------------------------------------------------ state
VARIABLES
    argv,             \* the band flags of the command line, in the order given
    tuners,           \* --tuners: the processes of the pool
    pc,               \* "start", "dispatch", "done", "usage" (exit 1), "raised"
    chtypes,          \* the ChannelType list built from the flags
    cur,              \* the index in chtypes of the band being scanned
    channels,         \* get_epg_for_chtype_mp: the chdefs of the band
    queue,            \* the pool's task queue: chunks of indices into channels
    worker,           \* per pool process: its chunk, the task it runs, its results
    outq,             \* chunk results delivered to the parent, not yet iterated
    consumed,         \* the chunk results the parent has iterated
    result,           \* get_epg_for_chtype_mp: the records collected so far
    runs,             \* per task: how often the capture pipeline was started
    status,           \* per task: "pending", "returned" or "raised"
    last,             \* the call of get_epg_from_record that ended last
    chtype_results,   \* the merged sequence of each band scanned
    all_definitions,  \* the final output
    rds               \* a call of remove_duplicate_service on its own

vars == <<argv, tuners, pc, chtypes, cur, channels, queue, worker, outq, consumed,
          result, runs, status, last, chtype_results, all_definitions, rds>>

runVars == <<argv, tuners, pc, chtypes, cur, channels, queue, worker, outq, consumed,
             result, runs, status, last, chtype_results, all_definitions>>

\* ------------------------------------------------------------------ __main__
Flag(band) == CASE band = "GR" -> "--gr" [] band = "BS" -> "--bs" [] band = "CS" -> "--cs"

\* the command lines: each band flag given at most once, in any order
CommandLines ==
    {a \in UNION {[1..n -> {"--gr", "--bs", "--cs"}] : n \in 0..3} :
        \A i, j \in 1..Len(a) : i # j => a[i] # a[j]}

Given(a, flag) == \E i \in 1..Len(a) : a[i] = flag

\* a bug: the bands in the order their flags were given
chtypes_in_request_order(a) ==
    [i \in 1..Len(a) |-> CHOOSE b \in Bands : Flag(b) = a[i]]

\* if args.gr: chtypes.append(GRChannel()), then bs, then cs
chtypes_of(a) ==
    (IF Given(a, "--gr") THEN <<"GR">> ELSE <<>>)
        \o (IF Given(a, "--bs") THEN <<"BS">> ELSE <<>>)
        \o (IF Given(a, "--cs") THEN <<"CS">> ELSE <<>>)

\* the channel indices explored: the first ones of the band's range
ScanLimit(a) == IF Len(a) > 1 THEN MaxChannelsMulti ELSE MaxChannels

channels_of(band, a) ==
    LET r == ChannelRange(band)
        n == IF Len(r) < ScanLimit(a) THEN Len(r) ELSE ScanLimit(a)
    IN  [i \in 1..n |-> chdef(band, r[i])]

\* Pool._get_tasks: the task indices 1..n in chunks of size
Chunks(n, size) ==
    [c \in 1..((n + size - 1) \div size) |->
        [k \in 1..(IF c * size <= n THEN size ELSE n - (c - 1) * size) |->
            (c - 1) * size + k]]

Idle == [chunk |-> <<>>, running |-> 0, acc |-> <<>>]
NoTask == [task |-> 0, tuner |-> "none", out |-> EmptyOutput, ret |-> Raised("none")]
NoCall == [pc |-> "none"]

\* the pipelines in flight
InFlight == {w \in 1..tuners : worker[w].running # 0}

RECURSIVE Flatten(_)
Flatten(ss) == IF Len(ss) = 0 THEN <<>> ELSE ss[1] \o Flatten(Tail(ss))

Init ==
    /\ argv \in CommandLines
    /\ tuners \in 1..MaxTuners
    /\ pc = "start"
    /\ chtypes = <<>>
    /\ cur = 0
    /\ channels = <<>>
    /\ queue = <<>>
    /\ worker = [w \in 1..tuners |-> Idle]
    /\ outq = <<>>
    /\ consumed = 0
    /\ result = <<>>
    /\ runs = <<>>
    /\ status = <<>>
    /\ last = NoTask
    /\ chtype_results = <<>>
    /\ all_definitions = <<>>
    /\ rds = NoCall

\* the first lines of get_epg_for_chtype_mp for band number k: the chdefs are
\* built and handed to imap_unordered in chunks
Dispatch(k, types) ==
    LET chs == channels_of(types[k], argv)
    IN  /\ cur' = k
        /\ channels' = chs
        /\ queue' = Chunks(Len(chs), ChunkSize)
        /\ worker' = [w \in 1..tuners |-> Idle]
        /\ outq' = <<>>
        /\ consumed' = 0
        /\ result' = <<>>
        /\ runs' = [t \in 1..Len(chs) |-> 0]
        /\ status' = [t \in 1..Len(chs) |-> "pending"]
        /\ last' = NoTask

\* __main__ up to the first dispatch: no band selected is a usage error
Main ==
    /\ pc = "start"
    /\ chtypes' = chtypes_of(argv)
    /\ IF Len(chtypes') = 0
       THEN /\ pc' = "usage"
            /\ UNCHANGED <<cur, channels, queue, worker, outq, consumed, result,
                           runs, status, last>>
       ELSE /\ pc' = "dispatch"
            /\ Dispatch(1, chtypes')
    /\ UNCHANGED <<argv, tuners, chtype_results, all_definitions, rds>>

\* a pool process takes the next chunk from the task queue
TakeChunk(w) ==
    /\ pc = "dispatch"
    /\ worker[w].chunk = <<>> /\ worker[w].running = 0
    /\ Len(queue) > 0
    /\ worker' = [worker EXCEPT ![w] = [chunk |-> Head(queue), running |-> 0, acc |-> <<>>]]
    /\ queue' = Tail(queue)
    /\ UNCHANGED <<argv, tuners, pc, chtypes, cur, channels, outq, consumed, result,
                   runs, status, last, chtype_results, all_definitions, rds>>

\* get_epg_from_record starts recpt1 | epgdump for the next task of the chunk
StartTask(w) ==
    /\ pc = "dispatch"
    /\ worker[w].running = 0 /\ Len(worker[w].chunk) > 0
    /\ LET t == Head(worker[w].chunk)
       IN  /\ worker' = [worker EXCEPT ![w].running = t, ![w].chunk = Tail(@)]
           /\ runs' = [runs EXCEPT ![t] = @ + 1]
    /\ UNCHANGED <<argv, tuners, pc, chtypes, cur, channels, queue, outq, consumed,
                   result, status, last, chtype_results, all_definitions, rds>>

\* the dump process ends with output out: get_epg_from_record returns the
\* records or raises; mapstar ends the chunk at the first exception, and the
\* finished chunk goes to the parent
FinishTask(w, tuner, out) ==
    /\ pc = "dispatch"
    /\ worker[w].running # 0
    /\ tuner = "unavailable" => out \in NoChannelOutputs
    /\ LET t == worker[w].running
           r == get_epg_from_record(channels[t], out)
           acc == Append(worker[w].acc, r.value)
       IN  /\ last' = [task |-> t, tuner |-> tuner, out |-> out, ret |-> r]
           /\ status' = [status EXCEPT ![t] = r.st]
           /\ IF r.st = "raised"
              THEN /\ outq' = Append(outq, [ok |-> FALSE, value |-> <<>>])
                   /\ worker' = [worker EXCEPT ![w] = Idle]
              ELSE IF Len(worker[w].chunk) = 0
              THEN /\ outq' = Append(outq, [ok |-> TRUE, value |-> acc])
                   /\ worker' = [worker EXCEPT ![w] = Idle]
              ELSE /\ outq' = outq
                   /\ worker' = [worker EXCEPT ![w].running = 0, ![w].acc = acc]
    /\ UNCHANGED <<argv, tuners, pc, chtypes, cur, channels, queue, consumed, result,
                   runs, chtype_results, all_definitions, rds>>

\* the list comprehension over imap_unordered takes the next chunk result:
\* the records of the non-empty lists, or the exception of the chunk, which
\* leaves the with block and terminates the pool
ParentNext ==
    /\ pc = "dispatch"
    /\ Len(outq) > 0
    /\ outq' = Tail(outq)
    /\ consumed' = consumed + 1
    /\ IF Head(outq).ok
       THEN /\ result' = result \o Flatten(SelectSeq(Head(outq).value, LAMBDA ch : Len(ch) > 0))
            /\ UNCHANGED <<pc, worker, queue>>
       ELSE /\ pc' = "raised"
            /\ worker' = [w \in 1..tuners |-> Idle]
            /\ queue' = <<>>
            /\ UNCHANGED result
    /\ UNCHANGED <<argv, tuners, chtypes, cur, channels, runs, status, last,
                   chtype_results, all_definitions, rds>>

\* imap_unordered is exhausted: the band's records are merged, and the next
\* band is scanned or the per-band sequences are concatenated
Merge ==
    /\ pc = "dispatch"
    /\ consumed = Len(Chunks(Len(channels), ChunkSize))
    /\ IF SortRaises(result)
       THEN /\ pc' = "raised"
            /\ UNCHANGED <<cur, channels, queue, worker, outq, consumed, result,
                           runs, status, last, chtype_results, all_definitions>>
       ELSE /\ chtype_results' =
                  Append(chtype_results, remove_duplicate_service(chtypes[cur], result))
            /\ IF cur < Len(chtypes)
               THEN /\ Dispatch(cur + 1, chtypes)
                    /\ UNCHANGED <<pc, all_definitions>>
               ELSE /\ pc' = "done"
                    /\ all_definitions' = Flatten(chtype_results')
                    /\ UNCHANGED <<cur, channels, queue, worker, outq, consumed, result,
                                   runs, status, last>>
    /\ UNCHANGED <<argv, tuners, chtypes, rds>>

\* what the dump process of a task of the current band may write
PossibleOutputs == IF pc = "dispatch" THEN DumpOutputs(chtypes[cur]) ELSE {}

Next ==
    \/ Main
    \/ \E w \in 1..tuners : TakeChunk(w)
    \/ \E w \in 1..tuners : StartTask(w)
    \/ \E w \in 1..tuners : \E tuner \in {"ok", "unavailable"} :
          \E out \in PossibleOutputs : FinishTask(w, tuner, out)
    \/ ParentNext
    \/ Merge

Spec == Init /\ [][Next]_vars

\* ------------------------------- remove_duplicate_service, called on its own
\* the records a band's scan may collect: a name that is None, empty or set,
\* one of two channel strings, one of two service ids
ChannelStrings(band) ==
    CASE band = "GR" -> {<<"9">>, <<"1", "0">>}
      [] band = "BS" -> {<<"B", "S", "3", "_", "0">>, <<"B", "S", "1", "1", "_", "0">>}
      [] band = "CS" -> {<<"C", "S", "2">>, <<"C", "S", "1", "0">>}

Records(band) ==
    [type : {band}, name : {None, <<>>, NHK}, channel : ChannelStrings(band),
     serviceId : {101, 102}, isDisabled : {FALSE}]

RecordLists(band) == UNION {[1..n -> Records(band)] : n \in 0..MaxRecords}

\* the list with the elements at i and j exchanged
Swap(s, i, j) ==
    [k \in 1..Len(s) |-> IF k = i THEN s[j] ELSE IF k = j THEN s[i] ELSE s[k]]

InitDedup ==
    /\ argv = <<>> /\ tuners = 1 /\ pc = "off" /\ chtypes = <<>> /\ cur = 0
    /\ channels = <<>> /\ queue = <<>> /\ worker = <<Idle>> /\ outq = <<>>
    /\ consumed = 0 /\ result = <<>> /\ runs = <<>> /\ status = <<>>
    /\ last = NoTask /\ chtype_results = <<>> /\ all_definitions = <<>>
    /\ \E band \in Bands : \E chs \in RecordLists(band) :
          rds = [pc |-> "call", chtype |-> band, channels |-> chs]

\* remove_duplicate_service(chtype, channels), and the same call on the list
\* with two neighbouring records exchanged (every other order of the list is
\* reached by such exchanges)
Call(i, j) ==
    /\ rds.pc = "call"
    /\ LET other == Swap(rds.channels, i, j)
       IN  rds' = [pc |-> "return", chtype |-> rds.chtype, channels |-> rds.channels,
                   other |-> other,
                   raised |-> SortRaises(rds.channels),
                   result |-> remove_duplicate_service(rds.chtype, rds.channels),
                   result_other |-> remove_duplicate_service(rds.chtype, other)]
    /\ UNCHANGED runVars

NextDedup ==
    \E i \in 1..MaxRecords : \E j \in {i, i + 1} :
        /\ rds.pc = "call"
        /\ (i = 1 /\ j = 1) \/ (i < j /\ j <= Len(rds.channels))
        /\ Call(i, j)

SpecDedup == InitDedup /\ [][NextDedup]_vars

\* ------------------------------------------------------------------ claims
Returns == rds.pc = "return"
Satellite == rds.chtype \in {"BS", "CS"}
Range1(s) == {s[i] : i \in 1..Len(s)}
ServiceIds(s) == {s[i].serviceId : i \in 1..Len(s)}
Count(s, x) == Cardinality({i \in 1..Len(s) : s[i] = x})

\* C1: on a satellite band remove_duplicate_service returns exactly one of the
\* input's records for each serviceId of the input: no serviceId twice, none
\* missing.
C1_OnePerServiceId ==
    (Returns /\ Satellite) =>
        /\ \A i, j \in 1..Len(rds.result) :
              i # j => rds.result[i].serviceId # rds.result[j].serviceId
        /\ ServiceIds(rds.result) = ServiceIds(rds.channels)
        /\ Range1(rds.result) \subseteq Range1(rds.channels)

\* C1's case: a serviceId that occurs twice, with another one in between
C1_Witness ==
    /\ Returns /\ Satellite
    /\ Len(rds.channels) = 3
    /\ rds.channels[1].serviceId = 101
    /\ rds.channels[2].serviceId = 102
    /\ rds.channels[3].serviceId = 101
    /\ Len(rds.result) = 2

\* C2: on a satellite band a record without a name (None or empty) survives
\* only when no record of its serviceId has a name; when one has, the survivor
\* of that serviceId has a name.
C2_NamedPreferred ==
    (Returns /\ Satellite) =>
        \A i \in 1..Len(rds.result) : \A k \in 1..Len(rds.channels) :
            (rds.channels[k].serviceId = rds.result[i].serviceId
                /\ rds.channels[k].name \notin {None, <<>>})
            => rds.result[i].name \notin {None, <<>>}

\* C2's case: the unnamed record of a serviceId comes first, the named one wins
C2_Witness ==
    /\ Returns /\ Satellite
    /\ Len(rds.channels) = 2
    /\ rds.channels[1].serviceId = rds.channels[2].serviceId
    /\ rds.channels[1].name = <<>>
    /\ rds.channels[2].name = NHK
    /\ Len(rds.result) = 1 /\ rds.result[1].name = NHK

\* the natural order of the claim, from the text: the pieces between the digit
\* runs as text, the digit runs as numbers
NaturalKey(text) ==
    LET parts == re_split(text)
    IN  [i \in 1..Len(parts) |->
            IF i % 2 = 0 THEN <<"int", DigitsToInt(parts[i])>> ELSE <<"str", parts[i]>>]

NaturalLess(a, b) == KeyLess(NaturalKey(a), NaturalKey(b))

Position(s, ch) == {i \in 1..Len(s) : s[i].channel = ch}

\* C3: for every band the returned sequence is in non-decreasing natural order
\* of the channel strings (no record is followed by one whose channel is
\* naturally smaller; "9" before "10", "BS3_0" before "BS11_0"), and the sort
\* never fails on keys it cannot compare.
C3_NaturalOrder ==
    Returns =>
        /\ ~rds.raised
        /\ \A i, j \in 1..Len(rds.result) :
              i < j => ~NaturalLess(rds.result[j].channel, rds.result[i].channel)
        /\ \A i \in Position(rds.result, <<"1", "0">>) :
              \A j \in Position(rds.result, <<"9">>) : j < i
        /\ \A i \in Position(rds.result, <<"B", "S", "1", "1", "_", "0">>) :
              \A j \in Position(rds.result, <<"B", "S", "3", "_", "0">>) : j < i

\* C3's case: the input holds "10" before "9", or "BS11_0" before "BS3_0", or
\* "CS10" before "CS2", and both are returned
C3_Witness ==
    /\ Returns
    /\ Len(rds.channels) = 2 /\ Len(rds.result) = 2
    /\ StrLess(rds.channels[1].channel, rds.channels[2].channel)
    /\ NaturalLess(rds.channels[2].channel, rds.channels[1].channel)
    /\ rds.result[1] = rds.channels[2]

\* C8: on the terrestrial band the output is a permutation of the input: every
\* record occurs as often in the one as in the other.
C8_TerrestrialPermutation ==
    (Returns /\ rds.chtype = "GR") =>
        /\ Len(rds.result) = Len(rds.channels)
        /\ \A x \in Range1(rds.channels) \cup Range1(rds.result) :
              Count(rds.result, x) = Count(rds.channels, x)

\* C8's case: three terrestrial records, two of them with one channel string
\* and one serviceId
C8_Witness ==
    /\ Returns /\ rds.chtype = "GR"
    /\ Len(rds.channels) = 3
    /\ rds.channels[1].channel = rds.channels[3].channel
    /\ rds.channels[1].serviceId = rds.channels[3].serviceId
    /\ rds.channels[1].name # rds.channels[3].name
    /\ rds.channels[2].serviceId = rds.channels[1].serviceId
    /\ Len(rds.result) = 3

Candidates(s, sid) ==
    LET all == {x \in Range1(s) : x.serviceId = sid}
        named == {x \in all : x.name \notin {None, <<>>}}
    IN  IF named # {} THEN named ELSE all

\* no tie for the stable sorts to break by input order
TieFree(chtype, s) ==
    LET kept == IF chtype = "GR" THEN Range1(s)
                ELSE UNION {Candidates(s, sid) : sid \in ServiceIds(s)}
    IN  /\ chtype # "GR" => \A sid \in ServiceIds(s) : Cardinality(Candidates(s, sid)) = 1
        /\ \A x, y \in kept :
              x # y => \/ NaturalLess(x.channel, y.channel)
                       \/ NaturalLess(y.channel, x.channel)

C4_EveryTaskOnce ==
    /\ Cardinality(InFlight) <= tuners
    /\ \A t \in DOMAIN runs : runs[t] <= 1
    /\ pc \in {"done", "raised"} =>
          \A t \in DOMAIN runs : runs[t] = 1 /\ status[t] = "returned"

\* C5 as stated: with the tuner unavailable, or a dump output that is empty,
\* malformed or without channel elements, get_epg_from_record returns the
\* empty sequence and does not raise, and the run goes on.
C5_FailureIsEmpty ==
    (last.task # 0 /\ (last.tuner = "unavailable" \/ last.out \in NoChannelOutputs))
        => last.ret = Returned(<<>>)

\* the tp of a channel element: its attribute, or the text of its last child
\* element named tp
TpOf(channel) ==
    LET K == {k \in 1..Len(channel.children) : channel.children[k].tag = "tp"}
    IN  IF K = {} THEN channel.attrib["tp"]
        ELSE channel.children[CHOOSE k \in K : \A m \in K : m <= k].text

\* C7 as stated: every record of a scan task has the task's recorder-channel
\* string as its channel.
C7_ChannelIsTaskString ==
    (last.task # 0 /\ last.ret.st = "returned") =>
        \A i \in 1..Len(last.ret.value) :
            last.ret.value[i].channel = channels[last.task].ch_rec

\* C7, amended: every record of a scan task has as its channel the tp of the
\* channel element it was parsed from (the tp attribute, or the text of a
\* child element named tp), one record per channel element in document order;
\* the band of the record is the task's.
C7_ChannelIsElementTp ==
    (last.task # 0 /\ last.ret.st = "returned") =>
        /\ Len(last.ret.value) = Len(last.out.channels)
        /\ \A i \in 1..Len(last.ret.value) :
              /\ last.ret.value[i].channel = TpOf(last.out.channels[i])
              /\ last.ret.value[i].type = channels[last.task].type

\* C7's case: a task whose dump reports a channel of another tp
C7_Witness ==
    /\ last.task # 0 /\ last.ret.st = "returned"
    /\ Len(last.ret.value) = 1
    /\ last.ret.value[1].channel # channels[last.task].ch_rec
    /\ last.ret.value[1].channel = TpOf(last.out.channels[1])

\* the service_id of a channel element is the text of an integer
HasIntegerServiceId(channel) ==
    LET K == {k \in 1..Len(channel.children) : channel.children[k].tag = "service_id"}
    IN  /\ K # {}
        /\ LET text == channel.children[CHOOSE k \in K : \A m \in K : m <= k].text
           IN  text # None /\ Len(text) > 0 /\ \A i \in 1..Len(text) : text[i] \in Digits

IsChannelRecord(x) == "serviceId" \in DOMAIN x /\ x.serviceId \in Int

\* C9: a task whose dump holds a channel element with an absent, empty or
\* non-integer service_id raises and returns no record, and every record that
\* is returned, collected, merged or output has an integer serviceId.
C9_NoRecordWithoutServiceId ==
    /\ (last.task # 0 /\ \E i \in 1..Len(last.out.channels) :
                            ~HasIntegerServiceId(last.out.channels[i]))
          => last.ret.st = "raised"
    /\ (last.task # 0 /\ last.ret.st = "returned") =>
          \A i \in 1..Len(last.ret.value) : IsChannelRecord(last.ret.value[i])
    /\ \A w \in DOMAIN worker : \A k \in 1..Len(worker[w].acc) :
          \A i \in 1..Len(worker[w].acc[k]) : IsChannelRecord(worker[w].acc[k][i])
    /\ \A q \in 1..Len(outq) : \A k \in 1..Len(outq[q].value) :
          \A i \in 1..Len(outq[q].value[k]) : IsChannelRecord(outq[q].value[k][i])
    /\ \A i \in 1..Len(result) : IsChannelRecord(result[i])
    /\ \A i \in 1..Len(all_definitions) : IsChannelRecord(all_definitions[i])

\* C9's case: a dump whose channel element has an empty service_id: the call
\* raised, and the run ended with it
C9_Witness ==
    /\ pc = "raised" /\ last.task # 0 /\ last.ret.st = "raised"
    /\ Len(last.out.channels) = 1
    /\ \E k \in 1..Len(last.out.channels[1].children) :
          /\ last.out.channels[1].children[k].tag = "service_id"
          /\ last.out.channels[1].children[k].text = None

BandRank(band) == CASE band = "GR" -> 1 [] band = "BS" -> 2 [] band = "CS" -> 3
RequestRank(band) == CHOOSE i \in 1..Len(argv) : argv[i] = Flag(band)

\* C6 as stated: the output holds the bands' records in the order in which the
\* bands were requested.
C6_RequestOrder ==
    pc = "done" =>
        \A i, j \in 1..Len(all_definitions) :
            i < j => RequestRank(all_definitions[i].type) <= RequestRank(all_definitions[j].type)

\* C6, amended: the bands are scanned, and their merged sequences
\* concatenated, in the fixed order terrestrial, BS, CS, whatever the order in
\* which they were requested.
C6_FixedBandOrder ==
    /\ \A i, j \in 1..Len(chtypes) : i < j => BandRank(chtypes[i]) < BandRank(chtypes[j])
    /\ pc # "start" => \A b \in Bands : Given(argv, Flag(b)) <=> b \in Range1(chtypes)
    /\ pc = "done" =>
          /\ all_definitions = Flatten(chtype_results)
          /\ Len(chtype_results) = Len(chtypes)
          /\ \A k \in 1..Len(chtypes) : \A i \in 1..Len(chtype_results[k]) :
                chtype_results[k][i].type = chtypes[k]
          /\ \A i, j \in 1..Len(all_definitions) :
                i < j => BandRank(all_definitions[i].type) <= BandRank(all_definitions[j].type)

\* C6's case: a satellite band requested before the terrestrial band, records
\* of both in the output
C6_Witness ==
    /\ pc = "done"
    /\ argv = <<"--bs", "--gr">>
    /\ \E i, j \in 1..Len(all_definitions) :
          all_definitions[i].type = "GR" /\ all_definitions[j].type = "BS"

=============================================================================
